---- MODULE Spec2Model ----
(***************************************************************************)
(* aftr refs: shared markdown reference management.                        *)
(* Model of packages/cli/src/aftr/refs.py (config/state I/O, sync_source,  *)
(* ensure_gitignore) and packages/cli/src/aftr/commands/refs_cmd.py (the   *)
(* add / sync / remove commands).                                          *)
(*                                                                         *)
(* Strings are sequences of one-character strings so that str.strip() and  *)
(* str.splitlines() are computed, not assumed.                             *)
(***************************************************************************)
EXTENDS Integers, Sequences, FiniteSets, TLC

\* ------------------------------------------------------------------ bounds
\* Highest commit a remote branch head can reach (heads start at commit 1).
MaxCommit == 2
\* Highest reading of the wall clock (datetime.now) the model hands out.
MaxClock == 2

\* Longest text of a .gitignore the project starts with, in tokens.
MaxIgnoreLen == 4
\* Most direct calls of one helper in a row.
MaxCalls == 3
\* Longest list of sources handed to save_refs_config on its own.
MaxSources == 2
\* Longest standard output of `git ls-remote`, in tokens.
MaxStdoutLen == 4

\* ------------------------------------------------------------------ strings
SP == " "
NL == "\n"
TAB == "\t"
WhiteSpace == {SP, NL, TAB}

\* Python's None where a str is optional
None == <<"None">>

RECURSIVE LStrip(_)
LStrip(s) == IF s # <<>> /\ Head(s) \in WhiteSpace THEN LStrip(Tail(s)) ELSE s

RECURSIVE RStrip(_)
RStrip(s) ==
    IF s # <<>> /\ s[Len(s)] \in WhiteSpace THEN RStrip(SubSeq(s, 1, Len(s) - 1)) ELSE s

\* str.strip()
Strip(s) == RStrip(LStrip(s))

\* The `x or default` idiom on Optional[str]: None and "" are both falsy.
OrElse(x, default) == IF x \in {None, <<>>} THEN default ELSE x

\* index of the first occurrence of token c in s, 0 when there is none
RECURSIVE IndexOf(_, _, _)
IndexOf(s, c, i) ==
    IF i > Len(s) THEN 0 ELSE IF s[i] = c THEN i ELSE IndexOf(s, c, i + 1)

\* str.splitlines()
RECURSIVE SplitLines(_)
SplitLines(s) ==
    IF s = <<>> THEN <<>>
    ELSE LET i == IndexOf(s, NL, 1)
         IN  IF i = 0 THEN <<s>>
             ELSE <<SubSeq(s, 1, i - 1)>> \o SplitLines(SubSeq(s, i + 1, Len(s)))

\* s.split(c)[0]
FirstField(s, c) ==
    LET i == IndexOf(s, c, 1) IN IF i = 0 THEN s ELSE SubSeq(s, 1, i - 1)

\* ------------------------------------------------------------------ inputs
NameA == <<"a">>
NameB == <<"b">>
NameZ == <<"z">>
Names == {NameA, NameB}
SyncNames == {None, NameA, NameB, NameZ}
UrlU == <<"u">>
Urls == {UrlU}
PathP == <<"p">>
PathQ == <<"q">>
Main == <<"m", "a", "i", "n">>
\* the --name / --path / --local-dir options `add` is run with: two sub-paths of
\* one repository, the second one also with the local directory of the first
AddInputs ==
    { [name |-> NameA, path |-> PathP, local_dir |-> None],
      [name |-> <<SP, "a">>, path |-> PathP, local_dir |-> None],
      [name |-> NameB, path |-> PathQ, local_dir |-> None],
      [name |-> NameB, path |-> PathQ, local_dir |-> NameA] }
Dirs == Names

\* ------------------------------------------------------------------ constants of refs.py
AFTR_DIR == <<".", "a", "f", "t", "r">>
\* the ignore pattern is one token of the ignore-file text
GITIGNORE_ENTRY == <<"E">>

\* dataclass RefsSource, with __post_init__
RefsSource(name, url, path, branch, local_dir) ==
    [name |-> name, url |-> url, path |-> path, branch |-> branch,
     local_dir |-> IF local_dir \in {None, <<>>} THEN name ELSE local_dir]

\* dataclass SyncResult (the message is represented by the error kind)
SyncResult(name, status, message, commit) ==
    [name |-> name, status |-> status, message |-> message, commit |-> commit]

VARIABLES
    refs_toml,   \* .aftr/refs.toml: [exists, tables]
    state_json,  \* .aftr/.state.json: [kind, sources]
    mirror,      \* .aftr/<local_dir>/: existing directory -> set of files
    gitignore,   \* .gitignore: [exists, content]
    remote,      \* url -> head commit of the tracked branch
    now,         \* next reading of datetime.now(timezone.utc)
    scratch,     \* per CLI process: the directory tempfile.mkdtemp() gave it
    cli,         \* per CLI process: position and locals of the running command
    prev,        \* the last ended sync_source call, if it returned "updated" (empty if it raised)
    unit         \* a helper called on its own: its arguments, call count and result

vars == <<refs_toml, state_json, mirror, gitignore, remote, now, scratch, cli, prev,
          unit>>

\* ------------------------------------------------------------------ config I/O
\* One [[sources]] table of refs.toml -> RefsSource (refs.py 57-66)
TableToSource(item) ==
    RefsSource(item.name, item.url, item.path,
               IF "branch" \in DOMAIN item THEN item.branch ELSE Main,
               IF "local_dir" \in DOMAIN item THEN item.local_dir ELSE item.name)

load_refs_config(file) ==
    IF ~file.exists THEN <<>>
    ELSE [i \in 1..Len(file.tables) |-> TableToSource(file.tables[i])]

\* the mutant never writes local_dir
SourceToTable_NoLocalDir(src) ==
    [name |-> src.name, url |-> src.url, path |-> src.path, branch |-> src.branch]

\* RefsSource -> table; local_dir is written only when it differs from name
SourceToTable(src) ==
    IF src.local_dir # src.name
    THEN [name |-> src.name, url |-> src.url, path |-> src.path,
          branch |-> src.branch, local_dir |-> src.local_dir]
    ELSE [name |-> src.name, url |-> src.url, path |-> src.path, branch |-> src.branch]

save_refs_config(sources) ==
    [exists |-> TRUE, tables |-> [i \in 1..Len(sources) |-> SourceToTable(sources[i])]]

\* ------------------------------------------------------------------ state I/O
EmptyMap == [n \in {} |-> 0]
EmptyState == [kind |-> "dict", sources |-> EmptyMap]
AbsentFile == [kind |-> "absent", sources |-> EmptyMap]
UnparseableFile == [kind |-> "unparseable", sources |-> EmptyMap]
\* valid JSON that is not an object: the text "[]"
ListFile == [kind |-> "list", sources |-> EmptyMap]

\* json.loads of the file, or {"sources": {}} when absent / JSONDecodeError
load_refs_state(file) ==
    IF file.kind \in {"absent", "unparseable"} THEN EmptyState ELSE file

\* json.dumps of the in-memory state, full overwrite
save_refs_state(state) == state

\* dict lookups of sync_source / remove_source raise AttributeError on a non-dict
IsDict(state) == state.kind = "dict"

\* ------------------------------------------------------------------ .gitignore helper
NoGitignore == [exists |-> FALSE, content |-> <<>>]

\* the mutant leaves out the `any(line.strip() == GITIGNORE_ENTRY ...)` test
ensure_gitignore_AlwaysAppends(file) ==
    IF file.exists
    THEN LET content == file.content
             separator == IF content # <<>> /\ content[Len(content)] # NL
                          THEN <<NL>> ELSE <<>>
         IN  [exists |-> TRUE,
              content |-> content \o separator \o GITIGNORE_ENTRY \o <<NL>>]
    ELSE [exists |-> TRUE, content |-> GITIGNORE_ENTRY \o <<NL>>]

\* the mutant appends the entry with no separator before it
ensure_gitignore_NoSeparator(file) ==
    IF file.exists
    THEN LET content == file.content
             lines == SplitLines(content)
         IN  IF \E i \in 1..Len(lines) : Strip(lines[i]) = GITIGNORE_ENTRY
             THEN file
             ELSE [exists |-> TRUE, content |-> content \o GITIGNORE_ENTRY \o <<NL>>]
    ELSE [exists |-> TRUE, content |-> GITIGNORE_ENTRY \o <<NL>>]

\* refs.py 262-276
ensure_gitignore(file) ==
    IF file.exists
    THEN LET content == file.content
             lines == SplitLines(content)
         IN  IF \E i \in 1..Len(lines) : Strip(lines[i]) = GITIGNORE_ENTRY
             THEN file
             ELSE LET separator ==
                          IF content # <<>> /\ content[Len(content)] # NL
                          THEN <<NL>> ELSE <<>>
                  IN  [exists |-> TRUE,
                       content |-> content \o separator \o GITIGNORE_ENTRY \o <<NL>>]
    ELSE [exists |-> TRUE, content |-> GITIGNORE_ENTRY \o <<NL>>]

\* ------------------------------------------------------------------ the git remote
\* hexadecimal digits of a commit hash; commit k prints as Sha(k)
Digit == <<"1", "2", "3", "4", "5", "6", "7", "8", "9">>
Sha(k) == <<Digit[k]>>
RefName == <<"r">>

\* files <<directory, file>> under sub-path `path` at commit k of the repository:
\* every commit drops one file of its parent and adds one
TreeOf(path, k) == {<<path, k>>, <<path, k + 1>>}
\* what a checkout holds outside the sub-path
GitDir == <<".", "g", "i", "t">>
OutsidePath == {<<GitDir, 0>>}
\* the checkout `git clone --sparse` + `sparse-checkout set path` leaves in tmpdir
CloneTree(path, k) == TreeOf(path, k) \cup OutsidePath

\* the mutant takes the scratch directory itself: src_path = tmpdir
SrcPath_Root(checkout, path) == checkout

\* the files under src_path = tmpdir / source.path (refs.py 220)
SrcPath(checkout, path) == {f \in checkout : f[1] = path}

\* what `git ls-remote url refs/heads/branch` can do when the head is commit k
LsRemoteRuns(k) ==
    { [outcome |-> "completed", returncode |-> 0,
       stdout |-> Sha(k) \o <<TAB>> \o RefName \o <<NL>>],
      [outcome |-> "completed", returncode |-> 0, stdout |-> <<>>],
      [outcome |-> "completed", returncode |-> 128, stdout |-> <<>>],
      [outcome |-> "timeout", returncode |-> 0, stdout |-> <<>>],
      [outcome |-> "oserror", returncode |-> 0, stdout |-> <<>>] }

\* the mutant does not look at the exit status
get_remote_commit_NoReturncode(git_available, run) ==
    IF ~git_available THEN None
    ELSE IF run.outcome \in {"timeout", "oserror"} THEN None
    ELSE LET stripped == Strip(run.stdout)
             line == IF stripped # <<>> THEN SplitLines(stripped)[1] ELSE <<>>
         IN  IF line # <<>> THEN FirstField(line, TAB) ELSE None

\* refs.py 121-137
get_remote_commit(git_available, run) ==
    IF ~git_available THEN None
    ELSE IF run.outcome \in {"timeout", "oserror"} THEN None
    ELSE IF run.returncode # 0 THEN None
    ELSE LET stripped == Strip(run.stdout)
             line == IF stripped # <<>> THEN SplitLines(stripped)[1] ELSE <<>>
         IN  IF line # <<>> THEN FirstField(line, TAB) ELSE None

\* ------------------------------------------------------------------ sync_source
NoSource == RefsSource(<<>>, <<>>, <<>>, <<>>, <<>>)
NoResult == SyncResult(<<>>, "none", "none", None)
NoTmpdir == [exists |-> FALSE, tree |-> {}]

\* state.get("sources", {}).get(name, {}) as a list of at most one entry
EntryOf(state, name) ==
    IF state.kind = "dict" /\ name \in DOMAIN state.sources
    THEN <<state.sources[name]>> ELSE <<>>

\* refs.py 171-172, the mutant reads `force and` for `not force and`
IsUpToDate_ForceInverted(force, state, name, remote_sha) ==
    /\ force
    /\ EntryOf(state, name) # <<>>
    /\ EntryOf(state, name)[1].last_commit = remote_sha

\* refs.py 171-172, the mutant drops the `not force` test
IsUpToDate_IgnoresForce(force, state, name, remote_sha) ==
    /\ EntryOf(state, name) # <<>>
    /\ EntryOf(state, name)[1].last_commit = remote_sha

\* refs.py 171-172, the mutant is satisfied with any recorded commit
IsUpToDate_AnyEntry(force, state, name, remote_sha) ==
    /\ ~force
    /\ EntryOf(state, name) # <<>>

\* refs.py 171-172: `not force and source_state.get("last_commit") == remote_sha`
IsUpToDate(force, state, name, remote_sha) ==
    /\ ~force
    /\ EntryOf(state, name) # <<>>
    /\ EntryOf(state, name)[1].last_commit = remote_sha

\* the mutant records the commit for every source of the state
UpdateState_TouchesAll(state, name, remote_sha, t) ==
    [kind |-> "dict",
     sources |-> [n \in DOMAIN state.sources \cup {name} |->
                    [last_commit |-> remote_sha,
                     synced_at |-> IF n = name THEN t ELSE state.sources[n].synced_at]]]

\* the mutant refreshes synced_at of an existing entry but not its last_commit
UpdateState_KeepsCommit(state, name, remote_sha, t) ==
    [kind |-> "dict",
     sources |-> (name :> [last_commit |-> IF name \in DOMAIN state.sources
                                          THEN state.sources[name].last_commit
                                          ELSE remote_sha,
                           synced_at |-> t])
                 @@ state.sources]

\* the mutant writes a state that holds the entry of this source alone
UpdateState_DropsOthers(state, name, remote_sha, t) ==
    [kind |-> "dict",
     sources |-> (name :> [last_commit |-> remote_sha, synced_at |-> t])]

\* refs.py 243-246: state.setdefault("sources", {})[name] = {...}
UpdateState(state, name, remote_sha, t) ==
    [kind |-> "dict",
     sources |-> (name :> [last_commit |-> remote_sha, synced_at |-> t])
                 @@ state.sources]

\* the mutant writes the state whatever the outcome (an update placed in `finally`)
StateFileOnReturn_Always(file, state, name, remote_sha, t, status) ==
    save_refs_state(UpdateState(state, name, remote_sha, t))

\* refs.py 242-247: the state file is rewritten only past every error return
StateFileOnReturn(file, state, name, remote_sha, t, status) ==
    IF status = "updated"
    THEN save_refs_state(UpdateState(state, name, remote_sha, t))
    ELSE file

\* the mutant deletes nothing
rmtree_Noop(dirs, dest) == dirs

\* shutil.rmtree(dest_path) guarded by dest_path.exists() (refs.py 229-230)
rmtree(dirs, dest) == [d \in (DOMAIN dirs) \ {dest} |-> dirs[d]]

\* shutil.copytree(src, dest_path) (refs.py 231)
copytree(dirs, src, dest) == (dest :> src) @@ dirs

\* what a copytree that fails can leave at dest: nothing (it could not create the
\* directory), or the tree short of the file it failed on (here the last one)
PartialCopies(dirs, src, dest) ==
    {rmtree(dirs, dest)} \cup
    {(dest :> (src \ {f})) @@ dirs :
        f \in {g \in src : \A h \in src : h[2] <= g[2]}}

\* ------------------------------------------------------------------ CLI processes
Procs == {1, 2}

\* locals of a command that is not running a sync_source call
NoCall ==
    [source |-> NoSource, remote_sha |-> None, state |-> EmptyState,
     result |-> NoResult, steps |-> <<>>,
     pre_file |-> AbsentFile, pre_dest |-> <<>>, pre_mirror |-> EmptyMap,
     cloned_head |-> 0]

\* the files of the project as a command found them
NoPre ==
    [toml |-> [exists |-> FALSE, tables |-> <<>>], state |-> AbsentFile,
     mirror |-> EmptyMap]

\* a process that has run nothing yet
IdleCli ==
    [pc |-> "idle", cmd |-> "none", arg |-> None, force |-> FALSE,
     targets |-> <<>>, idx |-> 0, any_error |-> FALSE, results |-> <<>>,
     exit_code |-> -1, exception |-> "none", call |-> NoCall,
     confirm |-> FALSE, pre |-> NoPre, invoked |-> <<>>]

\* no command is running in process p / in any process
Idle(L) == L.pc = "idle"
AllIdle == \A p \in Procs : Idle(cli[p])
\* the command of the process has ended: by typer.Exit or return, or by an exception
Ended(L) == L.pc \in {"exited", "crashed"}

\* typer.Exit(code), or the normal return of a command (code 0)
Exit(L, code) == [L EXCEPT !.pc = "exited", !.exit_code = code]

\* an exception is caught nowhere in the command: the locals are lost
Crash(L, exc) == [L EXCEPT !.pc = "crashed", !.exception = exc, !.call = NoCall]

\* the mutant has no `finally` clause
Finally_Leak(tmp, p) == tmp

\* `finally: shutil.rmtree(tmpdir, ignore_errors=True)` (refs.py 239-240)
Finally(tmp, p) == [tmp EXCEPT ![p] = NoTmpdir]

\* an existing directory as a list of at most one tree
DirOf(dirs, d) == IF d \in DOMAIN dirs THEN <<dirs[d]>> ELSE <<>>

\* `if name:` is false for None and for ""
Truthy(x) == x \notin {None, <<>>}

\* the mutant syncs every source whatever the name
Targets_All(sources, name) == sources

\* refs_cmd.py 152-158
Targets(sources, name) ==
    IF Truthy(name)
    THEN SelectSeq(sources, LAMBDA s : s.name = name)
    ELSE sources

\* `aftr refs sync [name] [--force]` up to the loop (refs_cmd.py 142-160)
sync_sources(p, name, force) ==
    LET sources == load_refs_config(refs_toml)
        targets == Targets(sources, name)
        L == [IdleCli EXCEPT !.cmd = "sync", !.arg = name, !.force = force]
    IN  /\ Idle(cli[p])
        /\ now + Len(targets) <= MaxClock + 1
        /\ cli' = [cli EXCEPT ![p] =
                     IF sources = <<>> THEN Exit(L, 0)
                     ELSE IF Truthy(name) /\ targets = <<>> THEN Exit(L, 1)
                     ELSE [L EXCEPT !.pc = "call", !.targets = targets, !.idx = 1]]
        /\ UNCHANGED <<refs_toml, state_json, mirror, gitignore, remote, now, scratch, prev, unit>>

\* a sync_source call returns `result` after the steps `steps`
Return(L, result, steps) ==
    [L EXCEPT !.pc = "report", !.call.result = result, !.call.steps = steps]

\* `sync_source(project_dir, source, force=force)` (refs_cmd.py 163)
ForcePassed(force) == force

\* write_text truncates the file and then writes it: a process that reads the
\* state file while another one is about to save or saving it may find the file
\* as it was, or cut short (refs.py 99-100, 109)
StateFileSeenBy(p) ==
    IF \E q \in Procs \ {p} : cli[q].pc = "save"
    THEN {state_json, UnparseableFile}
    ELSE {state_json}

\* sync_source up to the decision to fetch (refs.py 149-181)
SyncCheck(p) ==
    LET L == cli[p]
        source == L.targets[L.idx]
        force == ForcePassed(L.force)
    IN  /\ L.pc = "call"
        /\ \E git_available \in BOOLEAN, run \in LsRemoteRuns(remote[source.url]),
              file \in StateFileSeenBy(p) :
             LET remote_sha == get_remote_commit(git_available, run)
                 state == load_refs_state(file)
                 A == [L EXCEPT !.call = [NoCall EXCEPT
                                            !.source = source,
                                            !.remote_sha = remote_sha,
                                            !.pre_file = state_json,
                                            !.pre_dest = DirOf(mirror, source.local_dir),
                                            !.pre_mirror = mirror],
                                !.invoked = Append(@, [name |-> source.name,
                                                       force |-> force])]
                 status == IF ~git_available \/ remote_sha = None THEN "error"
                           ELSE IF ~IsDict(state) THEN "raised"
                           ELSE IF IsUpToDate(force, state, source.name, remote_sha)
                                THEN "up_to_date" ELSE "fetch"
             IN  /\ cli' = [cli EXCEPT ![p] =
                       IF ~git_available
                       THEN Return(A, SyncResult(source.name, "error", "no_git", None),
                                   <<"git_available">>)
                       ELSE IF remote_sha = None
                       THEN Return(A, SyncResult(source.name, "error", "unreachable", None),
                                   <<"git_available", "ls_remote">>)
                       ELSE IF ~IsDict(state)
                       THEN Crash([A EXCEPT !.call.steps =
                                        <<"git_available", "ls_remote", "load_state">>],
                                  "AttributeError")
                       ELSE IF status = "up_to_date"
                       THEN Return(A, SyncResult(source.name, "up_to_date", "ok", remote_sha),
                                   <<"git_available", "ls_remote", "load_state">>)
                       ELSE [A EXCEPT !.pc = "fetch",
                                      !.call.state = state,
                                      !.call.steps =
                                          <<"git_available", "ls_remote", "load_state">>]]
                 /\ scratch' = IF status = "fetch"
                               THEN [scratch EXCEPT ![p] = [exists |-> TRUE, tree |-> {}]]
                               ELSE scratch
                 /\ state_json' = StateFileOnReturn(state_json, state, source.name,
                                                    remote_sha, now, status)
        /\ prev' = IF cli'[p].pc = "crashed" THEN <<>> ELSE prev
        /\ UNCHANGED <<refs_toml, mirror, gitignore, remote, now, unit>>

\* the mutant has no `if not src_path.exists()` test
FetchOutcomes_NoPathCheck ==
    { [message |-> "clone_failed", steps |-> <<"clone">>],
      [message |-> "timeout", steps |-> <<"clone">>],
      [message |-> "checkout_failed", steps |-> <<"clone", "checkout">>],
      [message |-> "timeout", steps |-> <<"clone", "checkout">>],
      [message |-> "ok", steps |-> <<"clone", "checkout">>] }

\* how the clone, the sparse-checkout and the path check can end (refs.py 183-226, 233)
FetchOutcomes ==
    { [message |-> "clone_failed", steps |-> <<"clone">>],
      [message |-> "timeout", steps |-> <<"clone">>],
      [message |-> "checkout_failed", steps |-> <<"clone", "checkout">>],
      [message |-> "timeout", steps |-> <<"clone", "checkout">>],
      [message |-> "path_not_found", steps |-> <<"clone", "checkout", "path_check">>],
      [message |-> "ok", steps |-> <<"clone", "checkout", "path_check">>] }

\* the mutant deletes the old mirror before it clones
MirrorOnError_Deleted(dirs, dest) ==
    IF dest \in DOMAIN dirs THEN rmtree(dirs, dest) ELSE dirs

\* every `return SyncResult(status="error", ...)` of the clone, the checkout and
\* the path check stands before `shutil.rmtree(dest_path)` (refs.py 193-226, 229)
MirrorOnError(dirs, dest) == dirs

\* sparse clone into tmpdir, sparse-checkout, path check (refs.py 183-226, 233-240)
SyncFetch(p) ==
    LET L == cli[p]
        source == L.call.source
    IN  /\ L.pc = "fetch"
        /\ \E out \in FetchOutcomes :
             LET steps == L.call.steps \o out.steps
                 status == IF out.message = "ok" THEN "fetch" ELSE "error"
             IN  /\ cli' = [cli EXCEPT ![p] =
                       IF out.message = "ok"
                       THEN [L EXCEPT !.pc = "rmtree",
                                      !.call.steps = steps,
                                      !.call.cloned_head = remote[source.url]]
                       ELSE Return(L, SyncResult(source.name, "error", out.message, None),
                                   steps)]
                 /\ scratch' =
                       IF out.message = "ok"
                       THEN [scratch EXCEPT ![p].tree =
                                CloneTree(source.path, remote[source.url])]
                       ELSE Finally(scratch, p)
                 /\ state_json' = StateFileOnReturn(state_json, L.call.state, source.name,
                                                    L.call.remote_sha, now, status)
                 /\ mirror' = IF out.message = "ok" THEN mirror
                              ELSE MirrorOnError(mirror, source.local_dir)
        /\ UNCHANGED <<refs_toml, gitignore, remote, now, prev, unit>>

\* `if dest_path.exists(): shutil.rmtree(dest_path)` (refs.py 228-230)
SyncRmtree(p) ==
    LET L == cli[p]
        dest == L.call.source.local_dir
    IN  /\ L.pc = "rmtree"
        /\ mirror' = IF dest \in DOMAIN mirror THEN rmtree(mirror, dest) ELSE mirror
        /\ cli' = [cli EXCEPT ![p] =
                     [L EXCEPT !.pc = "copytree",
                               !.call.steps = IF dest \in DOMAIN mirror
                                              THEN @ \o <<"rmtree">> ELSE @]]
        /\ UNCHANGED <<refs_toml, state_json, gitignore, remote, now, scratch, prev, unit>>

\* shutil.copytree(src_path, dest_path), then `finally` (refs.py 231, 239-240)
SyncCopytree(p) ==
    LET L == cli[p]
        dest == L.call.source.local_dir
        src_path == SrcPath(scratch[p].tree, L.call.source.path)
        A == [L EXCEPT !.call.steps = @ \o <<"copytree">>]
    IN  /\ L.pc = "copytree"
        /\ IF dest \in DOMAIN mirror
           THEN \* copytree refuses an existing destination
                /\ cli' = [cli EXCEPT ![p] = Crash(A, "FileExistsError")]
                /\ UNCHANGED mirror
           ELSE \/ /\ mirror' = copytree(mirror, src_path, dest)
                   /\ cli' = [cli EXCEPT ![p] = [A EXCEPT !.pc = "save"]]
                \/ /\ mirror' \in PartialCopies(mirror, src_path, dest)
                   /\ cli' = [cli EXCEPT ![p] = Crash(A, "OSError")]
        /\ scratch' = Finally(scratch, p)
        /\ prev' = IF cli'[p].pc = "crashed" THEN <<>> ELSE prev
        /\ UNCHANGED <<refs_toml, state_json, gitignore, remote, now, unit>>

\* update and save the state, return "updated" (refs.py 242-254)
SyncSave(p) ==
    LET L == cli[p]
        source == L.call.source
        A == [L EXCEPT !.call.steps = @ \o <<"save_state">>]
    IN  /\ L.pc = "save"
        /\ now' = now + 1
        /\ \/ /\ state_json' = StateFileOnReturn(state_json, L.call.state, source.name,
                                                   L.call.remote_sha, now, "updated")
              /\ cli' = [cli EXCEPT ![p] =
                           Return(A, SyncResult(source.name, "updated", "ok",
                                                L.call.remote_sha),
                                  A.call.steps)]
           \/ \* write_text fails: before truncating the file, or after
              /\ state_json' \in {state_json, UnparseableFile}
              /\ cli' = [cli EXCEPT ![p] = Crash(A, "OSError")]
        /\ prev' = IF cli'[p].pc = "crashed" THEN <<>> ELSE prev
        /\ UNCHANGED <<refs_toml, mirror, gitignore, remote, scratch, unit>>

\* the mutant leaves the loop at the first error
NextPc_BreakOnError(status, idx, n) ==
    IF idx < n /\ status # "error" THEN "call" ELSE "finish"

\* `for source in targets:` goes on whatever the result was (refs_cmd.py 161)
NextPc(status, idx, n) == IF idx < n THEN "call" ELSE "finish"

\* refs_cmd.py 160, 165-172
AnyError(any_error, status) ==
    IF status \in {"up_to_date", "updated"} THEN any_error ELSE TRUE

\* the loop body after the call (refs_cmd.py 163-172)
Report(p) ==
    LET L == cli[p]
        result == L.call.result
    IN  /\ L.pc = "report"
        /\ cli' = [cli EXCEPT ![p] =
                     [L EXCEPT !.pc = NextPc(result.status, L.idx, Len(L.targets)),
                               !.results = @ \o <<result.status>>,
                               !.any_error = AnyError(@, result.status),
                               !.idx = IF NextPc(result.status, L.idx, Len(L.targets)) = "call"
                                       THEN @ + 1 ELSE @,
                               !.call = NoCall]]
        /\ prev' = IF result.status = "updated"
                   THEN <<[name |-> result.name, commit |-> result.commit,
                           entry |-> EntryOf(load_refs_state(state_json), result.name)]>>
                   ELSE <<>>
        /\ UNCHANGED <<refs_toml, state_json, mirror, gitignore, remote, now, scratch, unit>>

\* the mutant always reports success
ExitCode_AlwaysZero(any_error) == 0

\* `if any_error: raise typer.Exit(1)` (refs_cmd.py 174-175)
ExitCode(any_error) == IF any_error THEN 1 ELSE 0

Finish(p) ==
    LET L == cli[p]
    IN  /\ L.pc = "finish"
        /\ cli' = [cli EXCEPT ![p] = Exit(L, ExitCode(L.any_error))]
        /\ UNCHANGED <<refs_toml, state_json, mirror, gitignore, remote, now, scratch, prev, unit>>

\* ------------------------------------------------------------------ add, remove
\* registry, state file and mirrors at the start of a command
Pre == [toml |-> refs_toml, state |-> state_json, mirror |-> mirror]

\* the mutant looks at the first registered source only
NameTaken_FirstOnly(sources, name) == sources # <<>> /\ sources[1].name = name

\* `any(s.name == name for s in sources)` (refs_cmd.py 109)
NameTaken(sources, name) == \E i \in 1..Len(sources) : sources[i].name = name

\* `aftr refs add` with every field given on the command line (refs_cmd.py 63-126)
add_source(p, raw_url, raw_path, raw_name, raw_branch, raw_local_dir) ==
    LET url == Strip(OrElse(raw_url, <<>>))
        path == Strip(OrElse(raw_path, <<>>))
        name == Strip(OrElse(raw_name, <<>>))
        branch == Strip(OrElse(raw_branch, Main))
        effective_local_dir == Strip(OrElse(raw_local_dir, name))
        sources == load_refs_config(refs_toml)
        new_source == RefsSource(name, url, path, branch, effective_local_dir)
        L == [IdleCli EXCEPT !.cmd = "add", !.arg = name, !.pre = Pre]
    IN  /\ Idle(cli[p])
        /\ IF NameTaken(sources, name)
           THEN /\ cli' = [cli EXCEPT ![p] = Exit(L, 1)]
                /\ UNCHANGED <<refs_toml, gitignore>>
           ELSE /\ refs_toml' = save_refs_config(Append(sources, new_source))
                /\ gitignore' = ensure_gitignore(gitignore)
                /\ cli' = [cli EXCEPT ![p] = Exit(L, 0)]
        /\ prev' = <<>>
        /\ UNCHANGED <<state_json, mirror, remote, now, scratch, unit>>

\* the mutant leaves the entry in the state
PopEntry_Noop(state, name) == state

\* the mutant drops the entry only when it is the last one
PopEntry_OnlyWhenLast(state, name) ==
    IF DOMAIN state.sources = {name}
    THEN [state EXCEPT !.sources = EmptyMap]
    ELSE state

\* state.get("sources", {}).pop(name, None) (refs_cmd.py 254)
PopEntry(state, name) ==
    [state EXCEPT !.sources = [n \in (DOMAIN @) \ {name} |-> @[n]]]

\* the mutant goes on whatever the answer
Declined_Never(confirm) == FALSE

\* `if not typer.confirm(...)` (refs_cmd.py 239)
Declined(confirm) == ~confirm

\* `aftr refs remove name [--delete-files]`, the prompt answered `confirm`
\* (refs_cmd.py 231-257)
remove_source(p, name, delete_files, confirm) ==
    LET sources == load_refs_config(refs_toml)
        found == SelectSeq(sources, LAMBDA s : s.name = name)
        L == [IdleCli EXCEPT !.cmd = "remove", !.arg = name, !.force = delete_files,
                             !.confirm = (found # <<>> /\ confirm), !.pre = Pre]
        state == load_refs_state(state_json)
    IN  /\ Idle(cli[p])
        /\ IF found = <<>>
           THEN /\ cli' = [cli EXCEPT ![p] = Exit(L, 1)]
                /\ UNCHANGED <<refs_toml, state_json, mirror>>
           ELSE IF Declined(confirm)
           THEN /\ cli' = [cli EXCEPT ![p] = Exit(L, 0)]
                /\ UNCHANGED <<refs_toml, state_json, mirror>>
           ELSE /\ mirror' = IF delete_files /\ found[1].local_dir \in DOMAIN mirror
                             THEN rmtree(mirror, found[1].local_dir) ELSE mirror
                /\ refs_toml' = save_refs_config(SelectSeq(sources, LAMBDA s : s.name # name))
                /\ IF IsDict(state)
                   THEN /\ state_json' = save_refs_state(PopEntry(state, name))
                        /\ cli' = [cli EXCEPT ![p] = Exit(L, 0)]
                   ELSE /\ UNCHANGED state_json
                        /\ cli' = [cli EXCEPT ![p] = Crash(L, "AttributeError")]
        /\ prev' = <<>>
        /\ UNCHANGED <<gitignore, remote, now, scratch, unit>>

\* ------------------------------------------------------------------ environment
\* the process of an ended command is gone, and its memory with it
ProcessExit(p) ==
    /\ Ended(cli[p])
    /\ cli' = [cli EXCEPT ![p] = IdleCli]
    /\ UNCHANGED <<refs_toml, state_json, mirror, gitignore, remote, now, scratch, prev, unit>>

\* a commit is pushed to the tracked branch of a remote
Push(url) ==
    /\ remote[url] < MaxCommit
    /\ remote' = [remote EXCEPT ![url] = @ + 1]
    /\ UNCHANGED <<refs_toml, state_json, mirror, gitignore, now, scratch, cli, prev, unit>>

\* the state file is damaged between two commands: truncated, or rewritten as
\* JSON of another shape
CorruptStateFile ==
    /\ AllIdle
    /\ state_json' \in {UnparseableFile, ListFile} \ {state_json}
    /\ prev' = <<>>
    /\ UNCHANGED <<refs_toml, mirror, gitignore, remote, now, scratch, cli, unit>>

\* ------------------------------------------------------------------ specification
\* no helper is called on its own
NoUnit == [fn |-> "none", args |-> <<>>, calls |-> 0, result |-> <<>>]

Init ==
    /\ refs_toml = [exists |-> FALSE, tables |-> <<>>]
    /\ state_json = AbsentFile
    /\ mirror = EmptyMap
    /\ gitignore = NoGitignore
    /\ remote = [u \in Urls |-> 1]
    /\ now = 1
    /\ scratch = [p \in Procs |-> NoTmpdir]
    /\ cli = [p \in Procs |-> IdleCli]
    /\ prev = <<>>
    /\ unit = NoUnit

\* one command line at a time: the supported usage
Sequential == {1}

Next ==
    \/ \E p \in Sequential, url \in Urls, in \in AddInputs :
          add_source(p, url, in.path, in.name, None, in.local_dir)
    \/ \E p \in Sequential, name \in SyncNames, force \in BOOLEAN :
          sync_sources(p, name, force)
    \/ \E p \in Sequential : SyncCheck(p)
    \/ \E p \in Sequential : SyncFetch(p)
    \/ \E p \in Sequential : SyncRmtree(p)
    \/ \E p \in Sequential : SyncCopytree(p)
    \/ \E p \in Sequential : SyncSave(p)
    \/ \E p \in Sequential : Report(p)
    \/ \E p \in Sequential : Finish(p)
    \/ \E p \in Sequential, name \in Names \cup {NameZ},
          delete_files \in BOOLEAN, confirm \in BOOLEAN :
          remove_source(p, name, delete_files, confirm)
    \/ \E p \in Sequential : ProcessExit(p)
    \/ \E url \in Urls : Push(url)
    \/ CorruptStateFile

Spec == Init /\ [][Next]_vars

\* ------------------------------------------------------------------ a project with any .gitignore
\* the characters of a .gitignore: the ignore pattern, another character, white space
IgnoreAlphabet == {"E", "x", SP, NL}

\* every text of at most n characters
RECURSIVE Texts(_, _)
Texts(alphabet, n) ==
    IF n = 0 THEN {<<>>}
    ELSE LET shorter == Texts(alphabet, n - 1)
         IN  shorter \cup {Append(t, c) : t \in shorter, c \in alphabet}

\* the .gitignore files a project can have before aftr touches it
IgnoreFiles ==
    {NoGitignore} \cup
    {[exists |-> TRUE, content |-> c] : c \in Texts(IgnoreAlphabet, MaxIgnoreLen)}

InitIgnore ==
    /\ refs_toml = [exists |-> FALSE, tables |-> <<>>]
    /\ state_json = AbsentFile
    /\ mirror = EmptyMap
    /\ gitignore \in IgnoreFiles
    /\ remote = [u \in Urls |-> 1]
    /\ now = 1
    /\ scratch = [p \in Procs |-> NoTmpdir]
    /\ cli = [p \in Procs |-> IdleCli]
    /\ prev = <<>>
    /\ unit = [fn |-> "ensure_gitignore", args |-> <<gitignore>>, calls |-> 0,
               result |-> <<>>]

\* ensure_gitignore(project_dir) called on its own (test_refs.py 138-151)
EnsureGitignore ==
    /\ unit.fn = "ensure_gitignore"
    /\ unit.calls < MaxCalls
    /\ AllIdle
    /\ gitignore' = ensure_gitignore(gitignore)
    /\ unit' = [unit EXCEPT !.calls = @ + 1]
    /\ UNCHANGED <<refs_toml, state_json, mirror, remote, now, scratch, cli, prev>>

NextIgnore ==
    \/ EnsureGitignore
    \/ \E p \in Sequential, url \in Urls, in \in AddInputs :
          add_source(p, url, in.path, in.name, None, in.local_dir)
    \/ \E p \in Sequential : ProcessExit(p)

SpecIgnore == InitIgnore /\ [][NextIgnore]_vars

\* ------------------------------------------------------------------ save, then load
\* the RefsSource objects a caller can build: name and branch may be empty, and
\* local_dir may be left out, equal to the name, or another directory
SourcePool ==
    {RefsSource(name, UrlU, path, branch, local_dir) :
        name \in {NameA, NameB, <<>>}, path \in {PathP, PathQ},
        branch \in {Main, <<>>}, local_dir \in {<<>>, NameA, NameB}}

\* every list of at most n sources
RECURSIVE SourceLists(_)
SourceLists(n) ==
    IF n = 0 THEN {<<>>}
    ELSE LET shorter == SourceLists(n - 1)
         IN  shorter \cup {Append(l, src) : l \in shorter, src \in SourcePool}

InitConfig ==
    /\ refs_toml = [exists |-> FALSE, tables |-> <<>>]
    /\ state_json = AbsentFile
    /\ mirror = EmptyMap
    /\ gitignore = NoGitignore
    /\ remote = [u \in Urls |-> 1]
    /\ now = 1
    /\ scratch = [p \in Procs |-> NoTmpdir]
    /\ cli = [p \in Procs |-> IdleCli]
    /\ prev = <<>>
    /\ \E sources \in SourceLists(MaxSources) :
          unit = [fn |-> "save_refs_config", args |-> <<sources>>, calls |-> 0,
                  result |-> <<>>]

\* save_refs_config(project_dir, sources) (test_refs.py 73)
SaveSources ==
    /\ unit.fn = "save_refs_config"
    /\ unit.calls = 0
    /\ refs_toml' = save_refs_config(unit.args[1])
    /\ unit' = [unit EXCEPT !.calls = 1]
    /\ UNCHANGED <<state_json, mirror, gitignore, remote, now, scratch, cli, prev>>

\* loaded = load_refs_config(project_dir) (test_refs.py 74)
LoadSources ==
    /\ unit.fn = "save_refs_config"
    /\ unit.calls = 1
    /\ unit' = [unit EXCEPT !.calls = 2, !.result = <<load_refs_config(refs_toml)>>]
    /\ UNCHANGED <<refs_toml, state_json, mirror, gitignore, remote, now, scratch, cli,
                   prev>>

NextConfig == SaveSources \/ LoadSources

SpecConfig == InitConfig /\ [][NextConfig]_vars

\* ------------------------------------------------------------------ the remote inspector alone
\* the characters of the listing: a hash digit, a ref name character, white space
StdoutAlphabet == {"1", "r", TAB, NL, SP}

\* every way the `git ls-remote` subprocess can end: a completed process with an
\* exit status and some output, TimeoutExpired, or OSError
SubprocessRuns ==
    {[outcome |-> "completed", returncode |-> rc, stdout |-> out] :
        rc \in {0, 1, 128}, out \in Texts(StdoutAlphabet, MaxStdoutLen)}
    \cup {[outcome |-> o, returncode |-> 0, stdout |-> <<>>] : o \in {"timeout", "oserror"}}

InitRemote ==
    /\ refs_toml = [exists |-> FALSE, tables |-> <<>>]
    /\ state_json = AbsentFile
    /\ mirror = EmptyMap
    /\ gitignore = NoGitignore
    /\ remote = [u \in Urls |-> 1]
    /\ now = 1
    /\ scratch = [p \in Procs |-> NoTmpdir]
    /\ cli = [p \in Procs |-> IdleCli]
    /\ prev = <<>>
    /\ \E git_available \in BOOLEAN, run \in SubprocessRuns :
          unit = [fn |-> "get_remote_commit", args |-> <<git_available, run>>,
                  calls |-> 0, result |-> <<>>]

\* sha = get_remote_commit(url, branch) (test_refs.py 154-185)
GetRemoteCommit ==
    /\ unit.fn = "get_remote_commit"
    /\ unit.calls = 0
    /\ unit' = [unit EXCEPT !.calls = 1,
                            !.result = <<get_remote_commit(unit.args[1], unit.args[2])>>]
    /\ UNCHANGED <<refs_toml, state_json, mirror, gitignore, remote, now, scratch, cli,
                   prev>>

NextRemote == GetRemoteCommit

SpecRemote == InitRemote /\ [][NextRemote]_vars

\* ------------------------------------------------------------------ two command lines at once
\* a project with two sources of different local_dir
RaceSources ==
    <<RefsSource(NameA, UrlU, PathP, Main, None),
      RefsSource(NameB, UrlU, PathQ, Main, None)>>

\* the project after `add` of both sources, a sync of some of them at commit k
\* and pushes up to commit h; `unit` keeps the state file of that moment
InitRace ==
    /\ refs_toml = save_refs_config(RaceSources)
    /\ gitignore = ensure_gitignore(NoGitignore)
    /\ now = 1
    /\ scratch = [p \in Procs |-> NoTmpdir]
    /\ cli = [p \in Procs |-> IdleCli]
    /\ prev = <<>>
    /\ \E h \in 1..MaxCommit, synced \in SUBSET Procs :
         \E k \in 1..h :
            /\ remote = [u \in Urls |-> h]
            /\ state_json =
                 IF synced = {} THEN AbsentFile
                 ELSE [kind |-> "dict",
                       sources |-> [n \in {RaceSources[i].name : i \in synced} |->
                                      [last_commit |-> Sha(k), synced_at |-> 0]]]
            /\ mirror = [d \in {RaceSources[i].local_dir : i \in synced} |->
                           LET i == CHOOSE j \in synced : RaceSources[j].local_dir = d
                           IN  TreeOf(RaceSources[i].path, k)]
            /\ unit = [fn |-> "race", args |-> <<state_json>>, calls |-> 0,
                       result |-> <<>>]

\* process 1 runs `aftr refs sync a`, process 2 `aftr refs sync b`, at any pace
NextRace ==
    \/ \E p \in Procs, force \in BOOLEAN : sync_sources(p, RaceSources[p].name, force)
    \/ \E p \in Procs : SyncCheck(p)
    \/ \E p \in Procs : SyncFetch(p)
    \/ \E p \in Procs : SyncRmtree(p)
    \/ \E p \in Procs : SyncCopytree(p)
    \/ \E p \in Procs : SyncSave(p)
    \/ \E p \in Procs : Report(p)
    \/ \E p \in Procs : Finish(p)

SpecRace == InitRace /\ [][NextRace]_vars

\* ------------------------------------------------------------------ one command line at a time, no shared local_dir
\* the `add` command lines that leave local_dir at its default, the name
SeqInputs == {in \in AddInputs : in.local_dir = None}

\* no sync_source call is under way
NoSyncRunning == \A p \in Procs : cli[p].pc \in {"idle", "exited", "crashed"}

\* a commit is pushed while no sync is running
PushBetweenSyncs(url) == NoSyncRunning /\ Push(url)

NextSeq ==
    \/ \E p \in Sequential, url \in Urls, in \in SeqInputs :
          add_source(p, url, in.path, in.name, None, in.local_dir)
    \/ \E p \in Sequential, name \in SyncNames, force \in BOOLEAN :
          sync_sources(p, name, force)
    \/ \E p \in Sequential : SyncCheck(p)
    \/ \E p \in Sequential : SyncFetch(p)
    \/ \E p \in Sequential : SyncRmtree(p)
    \/ \E p \in Sequential : SyncCopytree(p)
    \/ \E p \in Sequential : SyncSave(p)
    \/ \E p \in Sequential : Report(p)
    \/ \E p \in Sequential : Finish(p)
    \/ \E p \in Sequential, name \in Names \cup {NameZ},
          delete_files \in BOOLEAN, confirm \in BOOLEAN :
          remove_source(p, name, delete_files, confirm)
    \/ \E p \in Sequential : ProcessExit(p)
    \/ \E url \in Urls : PushBetweenSyncs(url)

SpecSeq == Init /\ [][NextSeq]_vars

\* ------------------------------------------------------------------ properties
\* the entry of `name` in the state file as it is on disk
FileEntry(name) == EntryOf(load_refs_state(state_json), name)

\* a sync_source call of process p has just returned its result
Returned(p) == cli[p].pc = "report"

\* C1: when a sync of a source returned "updated" and the next sync of the same
\* source, unforced, finds the remote head at the commit the first one returned,
\* that second sync returns "up_to_date" with the same commit and the entry of
\* the source in the state file (last_commit and synced_at) is the one the first
\* sync wrote.
C1_SyncTwiceIsUpToDate ==
    \A p \in Procs :
        LET L == cli[p]
            C == L.call
        IN  ( /\ Returned(p)
              /\ prev # <<>>
              /\ prev[1].name = C.source.name
              /\ ~L.force
              /\ C.remote_sha = prev[1].commit )
            => /\ C.result.status = "up_to_date"
               /\ C.result.commit = prev[1].commit
               /\ FileEntry(C.source.name) = prev[1].entry
               /\ prev[1].entry # <<>>
               /\ prev[1].entry[1].last_commit = prev[1].commit

C1_Witness ==
    \E p \in Procs :
        /\ Returned(p)
        /\ prev # <<>>
        /\ prev[1].name = cli[p].call.source.name
        /\ ~cli[p].force
        /\ cli[p].call.remote_sha = prev[1].commit
        /\ cli[p].call.result.status = "up_to_date"

\* C2: whenever a sync_source call returns status "error", forced or not, the
\* entry of its source in the state file is what it was when the call began
\* (the same last_commit and synced_at, or still no entry), and so is the file.
C2_ErrorLeavesStateUntouched ==
    \A p \in Procs :
        LET C == cli[p].call
        IN  (Returned(p) /\ C.result.status = "error")
            => /\ EntryOf(load_refs_state(state_json), C.source.name)
                    = EntryOf(load_refs_state(C.pre_file), C.source.name)
               /\ state_json = C.pre_file

C2_Witness ==
    \E p \in Procs :
        LET C == cli[p].call
        IN  /\ Returned(p)
            /\ cli[p].force
            /\ C.result.status = "error"
            /\ C.result.message = "path_not_found"
            /\ EntryOf(load_refs_state(C.pre_file), C.source.name) # <<>>
            /\ EntryOf(load_refs_state(C.pre_file), C.source.name)[1].last_commit
                   # C.remote_sha

\* C3: when the sync loop of a batch has ended and an earlier target returned
\* "error", every later target has been attempted and its result reported, and
\* the command exits with code 1.
C3_ErrorDoesNotStopBatch ==
    \A p \in Procs :
        LET L == cli[p]
        IN  (L.cmd = "sync" /\ L.pc \in {"finish", "exited"})
            => \A i \in 1..Len(L.results) :
                  L.results[i] = "error"
                  => /\ \A j \in (i + 1)..Len(L.targets) :
                           /\ j <= Len(L.results)
                           /\ L.results[j] \in {"updated", "up_to_date", "error"}
                     /\ L.pc = "exited" => L.exit_code = 1

C3_Witness ==
    \E p \in Procs :
        LET L == cli[p]
        IN  /\ L.cmd = "sync"
            /\ L.pc = "exited"
            /\ Len(L.targets) = 2
            /\ Len(L.results) = 2
            /\ L.results[1] = "error"
            /\ L.results[2] = "updated"
            /\ L.exit_code = 1

\* C4: whenever a sync_source call returns "updated", the mirror directory of
\* its source exists and holds exactly the files of the sub-path at the commit
\* that was cloned; no file the directory held before survives unless the new
\* fetch has it.
C4_ReplaceNotMerge ==
    \A p \in Procs :
        LET C == cli[p].call
            dest == C.source.local_dir
        IN  (Returned(p) /\ C.result.status = "updated")
            => /\ dest \in DOMAIN mirror
               /\ mirror[dest] = TreeOf(C.source.path, C.cloned_head)
               /\ \A f \in UNION {C.pre_dest[i] : i \in 1..Len(C.pre_dest)} :
                     f \in mirror[dest] => f \in TreeOf(C.source.path, C.cloned_head)

C4_Witness ==
    \E p \in Procs :
        LET C == cli[p].call
        IN  /\ Returned(p)
            /\ C.result.status = "updated"
            /\ C.pre_dest # <<>>
            /\ C.pre_dest[1] \ TreeOf(C.source.path, C.cloned_head) # {}
            /\ mirror[C.source.local_dir] = TreeOf(C.source.path, C.cloned_head)

\* C5: a sync_source call with force = true that finds the remote head equal to
\* the recorded last_commit never returns "up_to_date": it runs the fetch, and
\* returns "updated" unless a step of the fetch fails; when it returns "updated"
\* the entry keeps its last_commit and has a later synced_at.
C5_ForceBypass ==
    \A p \in Procs :
        LET L == cli[p]
            C == L.call
            before == EntryOf(load_refs_state(C.pre_file), C.source.name)
            after == FileEntry(C.source.name)
        IN  ( /\ Returned(p)
              /\ L.force
              /\ before # <<>>
              /\ before[1].last_commit = C.remote_sha )
            => /\ C.result.status \in {"updated", "error"}
               /\ \E i \in 1..Len(C.steps) : C.steps[i] = "clone"
               /\ C.result.status = "updated"
                  => /\ \E i \in 1..Len(C.steps) : C.steps[i] = "copytree"
                     /\ after # <<>>
                     /\ after[1].last_commit = before[1].last_commit
                     /\ after[1].synced_at > before[1].synced_at
                     /\ C.result.commit = before[1].last_commit

C5_Witness ==
    \E p \in Procs :
        LET L == cli[p]
            C == L.call
            before == EntryOf(load_refs_state(C.pre_file), C.source.name)
        IN  /\ Returned(p)
            /\ L.force
            /\ before # <<>>
            /\ before[1].last_commit = C.remote_sha
            /\ C.result.status = "updated"
            /\ FileEntry(C.source.name)[1].synced_at > before[1].synced_at

\* C6: `sync name` with a name no registered source has, whatever the registry
\* holds (nothing included), calls sync_source for no source and exits with
\* code 1.
C6_UnknownNameIsAnError ==
    \A p \in Procs :
        LET L == cli[p]
            sources == load_refs_config(refs_toml)
        IN  ( /\ L.cmd = "sync"
              /\ Truthy(L.arg)
              /\ \A i \in 1..Len(sources) : sources[i].name # L.arg )
            => /\ L.pc = "exited"
               /\ L.results = <<>>
               /\ L.exit_code = 1

\* C7: whatever the state file holds, a sync never raises because of it:
\* load_refs_state hands sync_source a {"sources": {...}} mapping, so no
\* AttributeError leaves the dictionary lookups.
C7_CorruptStateNeverBlocks ==
    \A p \in Procs :
        cli[p].cmd = "sync" => cli[p].exception # "AttributeError"

\* C8: in every state during a sync_source call and when it has returned, the
\* mirror directory of its source holds the complete content it had when the
\* call began or the complete content of the new fetch.
C8_AtomicMirrorReplacement ==
    \A p \in Procs :
        LET C == cli[p].call
            old == C.pre_dest
            new == <<TreeOf(C.source.path, C.cloned_head)>>
        IN  cli[p].pc \in {"fetch", "rmtree", "copytree", "save", "report"}
            => DirOf(mirror, C.source.local_dir) \in {old, new}

\* C9: no failure of a step of sync_source (the copy into the mirror and the
\* write of the state file included) leaves it as an exception: the sync
\* command never ends by an OSError.
C9_ErrorsAsData ==
    \A p \in Procs :
        cli[p].cmd = "sync" => cli[p].exception # "OSError"

\* C10: a sync command that ran its loop over a non-empty target list exits
\* with code 1 when some target returned "error", and with code 0 otherwise.
C10_BatchExitStatus ==
    \A p \in Procs :
        LET L == cli[p]
        IN  (L.cmd = "sync" /\ L.pc = "exited" /\ L.targets # <<>>)
            => /\ Len(L.results) = Len(L.targets)
               /\ L.exit_code = 1 <=> \E i \in 1..Len(L.results) : L.results[i] = "error"
               /\ L.exit_code = 0 <=> \A i \in 1..Len(L.results) :
                                          L.results[i] \in {"up_to_date", "updated"}

C10_Witness ==
    \E p \in Procs :
        LET L == cli[p]
        IN  /\ L.cmd = "sync"
            /\ L.pc = "exited"
            /\ L.results = <<"updated", "error">>
            /\ L.exit_code = 1

\* C11: the names of the registered sources are pairwise different, and an
\* `add` whose stripped name is the name of a registered source exits with
\* code 1 and leaves refs.toml as it found it.
C11_NameUniqueness ==
    LET sources == load_refs_config(refs_toml)
    IN  /\ \A i, j \in 1..Len(sources) : i # j => sources[i].name # sources[j].name
        /\ \A p \in Procs :
              LET L == cli[p]
                  before == load_refs_config(L.pre.toml)
              IN  ( /\ L.cmd = "add"
                    /\ Ended(L)
                    /\ \E i \in 1..Len(before) : before[i].name = L.arg )
                  => /\ L.pc = "exited"
                     /\ L.exit_code = 1
                     /\ refs_toml = L.pre.toml

C11_Witness ==
    \E p \in Procs :
        /\ cli[p].cmd = "add"
        /\ cli[p].pc = "exited"
        /\ cli[p].exit_code = 1
        /\ cli[p].arg = NameB
        /\ Len(load_refs_config(refs_toml)) = 2
        /\ refs_toml = cli[p].pre.toml

\* the lines of a .gitignore that are the ignore pattern, white space aside
EntryLines(file) ==
    LET lines == SplitLines(file.content)
    IN  {i \in 1..Len(lines) : Strip(lines[i]) = GITIGNORE_ENTRY}

\* t begins with s
IsPrefix(s, t) == Len(s) <= Len(t) /\ SubSeq(t, 1, Len(s)) = s

C13_SourceRoundTrip ==
    (unit.fn = "save_refs_config" /\ unit.calls = 2)
    => LET saved == unit.args[1]
           loaded == unit.result[1]
       IN  /\ Len(loaded) = Len(saved)
           /\ \A i \in 1..Len(saved) :
                 /\ loaded[i].name = saved[i].name
                 /\ loaded[i].url = saved[i].url
                 /\ loaded[i].path = saved[i].path
                 /\ loaded[i].branch = saved[i].branch
                 /\ loaded[i].local_dir = saved[i].local_dir

C13_Witness ==
    /\ unit.fn = "save_refs_config"
    /\ unit.calls = 2
    /\ Len(unit.args[1]) = 2
    /\ unit.args[1][1].name = NameB
    /\ unit.args[1][1].local_dir = NameA
    /\ unit.args[1][2].name = NameA
    /\ unit.args[1][2].local_dir = NameA
    /\ "local_dir" \in DOMAIN refs_toml.tables[1]
    /\ "local_dir" \notin DOMAIN refs_toml.tables[2]
    /\ unit.result[1] = unit.args[1]

\* C14: the directory mkdtemp gave a sync_source call exists only while the
\* call is between mkdtemp and the end of its try block: once the call has
\* returned ("updated" or "error") or raised, the directory is gone.
C14_ScratchCleanup ==
    \A p \in Procs :
        cli[p].pc \notin {"fetch", "rmtree", "copytree"} => ~scratch[p].exists

C14_Witness ==
    \E p \in Procs :
        LET C == cli[p].call
        IN  /\ Returned(p)
            /\ C.result.status = "error"
            /\ C.result.message = "timeout"
            /\ C.steps[Len(C.steps)] = "checkout"
            /\ ~scratch[p].exists

\* C15: a sync_source call without force that finds the remote head at a commit
\* other than the recorded last_commit does not return "up_to_date" and runs
\* the fetch; when it returns "updated", its commit is the new head, not the
\* recorded one, the state file records the new head as last_commit, and the
\* mirror directory holds the content of the sub-path at that commit and
\* nothing else (no push having come between the head query and the clone).
C15_SyncFollowsRemote ==
    \A p \in Procs :
        LET L == cli[p]
            C == L.call
            dest == C.source.local_dir
            before == EntryOf(load_refs_state(C.pre_file), C.source.name)
            after == FileEntry(C.source.name)
        IN  ( /\ Returned(p)
              /\ ~L.force
              /\ before # <<>>
              /\ C.remote_sha # None
              /\ C.remote_sha # before[1].last_commit )
            => /\ C.result.status \in {"updated", "error"}
               /\ \E i \in 1..Len(C.steps) : C.steps[i] = "clone"
               /\ C.result.status = "updated"
                  => /\ C.result.commit = C.remote_sha
                     /\ C.result.commit # before[1].last_commit
                     /\ after # <<>>
                     /\ after[1].last_commit = C.remote_sha
                     /\ dest \in DOMAIN mirror
                     /\ C.remote_sha = Sha(C.cloned_head)
                        => mirror[dest] = TreeOf(C.source.path, C.cloned_head)

C15_Witness ==
    \E p \in Procs :
        LET L == cli[p]
            C == L.call
            before == EntryOf(load_refs_state(C.pre_file), C.source.name)
        IN  /\ Returned(p)
            /\ ~L.force
            /\ before # <<>>
            /\ before[1].last_commit = Sha(1)
            /\ C.remote_sha = Sha(2)
            /\ C.result.status = "updated"
            /\ C.result.commit = Sha(2)
            /\ C.pre_dest = <<TreeOf(C.source.path, 1)>>
            /\ mirror[C.source.local_dir] = TreeOf(C.source.path, 2)
            /\ FileEntry(C.source.name)[1].last_commit = Sha(2)

\* C16: once an `add` command has ended in a project that began with any
\* .gitignore (or none) and an empty registry, .gitignore exists and one of
\* its lines is the ignore pattern (white space around it aside, as
\* ensure_gitignore compares lines).
C16_IgnoreEntryAfterAdd ==
    \A p \in Procs :
        (cli[p].cmd = "add" /\ Ended(cli[p]))
        => /\ gitignore.exists
           /\ EntryLines(gitignore) # {}

C16_Witness ==
    \E p \in Procs :
        /\ cli[p].cmd = "add"
        /\ cli[p].pc = "exited"
        /\ cli[p].exit_code = 0
        /\ unit.calls = 0
        /\ unit.args[1] = [exists |-> TRUE, content |-> <<"x">>]
        /\ gitignore = [exists |-> TRUE, content |-> <<"x", NL, "E", NL>>]

\* the registered source named `name` in a refs.toml, as a list of at most one
Registered(file, name) == SelectSeq(load_refs_config(file), LAMBDA s : s.name = name)

\* C17: after `remove name` of a registered source, the prompt answered yes,
\* no registered source has that name, the state file has no entry for it, the
\* other sources are registered as before and in the same order, and their
\* state entries are what they were.
C17_RemoveDeregisters ==
    \A p \in Procs :
        LET L == cli[p]
            before == load_refs_config(L.pre.toml)
            after == load_refs_config(refs_toml)
        IN  (L.cmd = "remove" /\ Ended(L) /\ L.confirm)
            => /\ Registered(refs_toml, L.arg) = <<>>
               /\ after = SelectSeq(before, LAMBDA s : s.name # L.arg)
               /\ FileEntry(L.arg) = <<>>
               /\ \A n \in Names \ {L.arg} :
                     FileEntry(n) = EntryOf(load_refs_state(L.pre.state), n)

C17_Witness ==
    \E p \in Procs :
        LET L == cli[p]
        IN  /\ L.cmd = "remove"
            /\ L.pc = "exited"
            /\ L.exit_code = 0
            /\ L.confirm
            /\ L.arg = NameA
            /\ EntryOf(load_refs_state(L.pre.state), NameA) # <<>>
            /\ Len(load_refs_config(L.pre.toml)) = 2
            /\ FileEntry(NameA) = <<>>
            /\ FileEntry(NameB) # <<>>
            /\ Registered(refs_toml, NameB) # <<>>

\* C18: a `remove name` whose name is not registered exits with code 1, one
\* whose prompt is answered no exits with code 0 and leaves the source
\* registered, and both leave refs.toml, the state file and every mirror
\* directory as they were.
C18_RemoveWithoutEffect ==
    \A p \in Procs :
        LET L == cli[p]
        IN  (L.cmd = "remove" /\ Ended(L) /\ ~L.confirm)
            => /\ L.pc = "exited"
               /\ refs_toml = L.pre.toml
               /\ state_json = L.pre.state
               /\ mirror = L.pre.mirror
               /\ Registered(L.pre.toml, L.arg) = <<>> => L.exit_code = 1
               /\ Registered(L.pre.toml, L.arg) # <<>>
                  => (L.exit_code = 0 /\ Registered(refs_toml, L.arg) # <<>>)

C18_Witness ==
    \E p \in Procs :
        LET L == cli[p]
        IN  /\ L.cmd = "remove"
            /\ L.pc = "exited"
            /\ ~L.confirm
            /\ L.force
            /\ L.exit_code = 0
            /\ Registered(refs_toml, L.arg) # <<>>
            /\ FileEntry(L.arg) # <<>>
            /\ mirror # EmptyMap

\* C19: after a confirmed `remove name --delete-files` the mirror directory
\* .aftr/<local_dir> of the removed source does not exist, whether it existed
\* before or not, and the command exits with code 0 in both cases when the
\* state file holds an object; after a confirmed `remove name` without
\* --delete-files every mirror directory is as it was.
C19_MirrorPurge ==
    \A p \in Procs :
        LET L == cli[p]
            target == Registered(L.pre.toml, L.arg)
        IN  (L.cmd = "remove" /\ Ended(L) /\ L.confirm)
            => /\ target # <<>>
               /\ L.force => target[1].local_dir \notin DOMAIN mirror
               /\ L.force => \A d \in (DOMAIN L.pre.mirror) \ {target[1].local_dir} :
                                 DirOf(mirror, d) = <<L.pre.mirror[d]>>
               /\ ~L.force => mirror = L.pre.mirror
               /\ IsDict(load_refs_state(L.pre.state))
                  => (L.pc = "exited" /\ L.exit_code = 0)

C19_Witness ==
    \E p \in Procs :
        LET L == cli[p]
            target == Registered(L.pre.toml, L.arg)
        IN  /\ L.cmd = "remove"
            /\ L.pc = "exited"
            /\ L.confirm
            /\ L.force
            /\ target # <<>>
            /\ target[1].local_dir \in DOMAIN L.pre.mirror
            /\ target[1].local_dir \notin DOMAIN mirror

\* C20: get_remote_commit returns None when git is not installed, when the
\* listing times out or cannot be started, when it exits non-zero and when its
\* output is empty; when the listing succeeds with a first line "<hash> TAB
\* <ref>" it returns <hash>; and what it returns is always None or a non-empty
\* token without TAB or newline.
C20_RemoteInspectorTotal ==
    (unit.fn = "get_remote_commit" /\ unit.calls = 1)
    => LET git_available == unit.args[1]
           run == unit.args[2]
           sha == unit.result[1]
       IN  /\ ~git_available => sha = None
           /\ run.outcome \in {"timeout", "oserror"} => sha = None
           /\ run.returncode # 0 => sha = None
           /\ run.stdout = <<>> => sha = None
           /\ \A h \in {<<"1">>, <<"1", "1">>} :
                 ( /\ git_available
                   /\ run.outcome = "completed"
                   /\ run.returncode = 0
                   /\ IsPrefix(h \o <<TAB>> \o RefName, run.stdout) )
                 => sha = h
           /\ \/ sha = None
              \/ /\ sha # <<>>
                 /\ \A i \in 1..Len(sha) : sha[i] \notin {TAB, NL}

C20_Witness ==
    /\ unit.fn = "get_remote_commit"
    /\ unit.calls = 1
    /\ unit.args[1]
    /\ unit.args[2] = [outcome |-> "completed", returncode |-> 0,
                       stdout |-> <<"1", TAB, "r", NL>>]
    /\ unit.result = <<(<<"1">>)>>

\* C21: a sync_source call whose head query succeeded returns "up_to_date"
\* exactly when it is not forced and the state file it found records the head
\* as last_commit of its source; it then has not cloned, reports the head as
\* its commit, and leaves the state file (no entry created, none changed) and
\* the mirror directory as it found them.
C21_UpToDateDecisionAndFrame ==
    \A p \in Procs :
        LET L == cli[p]
            C == L.call
            before == EntryOf(load_refs_state(C.pre_file), C.source.name)
        IN  (Returned(p) /\ C.remote_sha # None)
            => /\ C.result.status = "up_to_date"
                  <=> (~L.force /\ before # <<>> /\ before[1].last_commit = C.remote_sha)
               /\ C.result.status = "up_to_date"
                  => /\ \A i \in 1..Len(C.steps) : C.steps[i] # "clone"
                     /\ C.result.commit = C.remote_sha
                     /\ state_json = C.pre_file
                     /\ DirOf(mirror, C.source.local_dir) = C.pre_dest

C21_Witness ==
    \E p \in Procs :
        LET C == cli[p].call
        IN  /\ Returned(p)
            /\ C.result.status = "up_to_date"
            /\ C.result.commit = Sha(2)
            /\ C.pre_dest # <<>>
            /\ state_json = C.pre_file

\* the steps of sync_source in the order of the code, the deletion of an
\* existing mirror directory being part of the replacement
StepOrder ==
    <<"git_available", "ls_remote", "load_state", "clone", "checkout", "path_check",
      "copytree", "save_state">>

\* the steps a call ran, the deletion left out
StepsRun(C) == SelectSeq(C.steps, LAMBDA x : x # "rmtree")

\* C22: the steps a returned sync_source call ran are an initial part of the
\* order git check, head query, state comparison, clone, sparse-checkout, path
\* check, mirror replacement, state write; an error result names the step the
\* call stopped at (no git, unreachable, clone failed, checkout failed, path
\* not found, timeout of the clone or of the checkout), "up_to_date" stops at
\* the state comparison, and "updated" has run them all; so the mirror
\* replacement and the state write are run only by a call that ran every
\* earlier step and returns "updated".
C22_StepOrder ==
    \A p \in Procs :
        LET C == cli[p].call
            run == StepsRun(C)
            last == run[Len(run)]
            R == C.result
        IN  Returned(p)
            => /\ run # <<>>
               /\ IsPrefix(run, StepOrder)
               /\ R.status \in {"error", "up_to_date", "updated"}
               /\ R.status = "updated" <=> run = StepOrder
               /\ R.status = "up_to_date" <=> (last = "load_state")
               /\ R.status = "error"
                  => /\ R.message = "no_git" <=> last = "git_available"
                     /\ R.message = "unreachable" <=> last = "ls_remote"
                     /\ R.message = "clone_failed" => last = "clone"
                     /\ R.message = "checkout_failed" => last = "checkout"
                     /\ R.message = "path_not_found" <=> last = "path_check"
                     /\ R.message = "timeout" => last \in {"clone", "checkout"}
                     /\ R.message \in {"no_git", "unreachable", "clone_failed",
                                       "checkout_failed", "path_not_found", "timeout"}
                     /\ \A i \in 1..Len(C.steps) :
                           C.steps[i] \notin {"rmtree", "copytree", "save_state"}
                     /\ DirOf(mirror, C.source.local_dir) = C.pre_dest
                     /\ state_json = C.pre_file
               /\ (\E i \in 1..Len(C.steps) : C.steps[i] = "rmtree")
                  => R.status = "updated"

C22_Witness ==
    \E p \in Procs :
        LET C == cli[p].call
        IN  /\ Returned(p)
            /\ C.result.status = "error"
            /\ C.result.message = "path_not_found"
            /\ C.steps = SubSeq(StepOrder, 1, 6)
            /\ C.pre_dest # <<>>

\* C23: a sync command that ran its loop to the end has called sync_source
\* once for each registered source, in the order of refs.toml, when no name
\* was given, and once, for the source of that name, when a registered name
\* was given; every call got the --force flag of the command line; and while
\* the loop runs the calls made so far are an initial part of that list.
C23_BatchOrder ==
    \A p \in Procs :
        LET L == cli[p]
            registered == load_refs_config(refs_toml)
            expected ==
                IF Truthy(L.arg)
                THEN [i \in 1..Len(Registered(refs_toml, L.arg)) |->
                        [name |-> L.arg, force |-> L.force]]
                ELSE [i \in 1..Len(registered) |->
                        [name |-> registered[i].name, force |-> L.force]]
        IN  L.cmd = "sync"
            => /\ IsPrefix(L.invoked, expected)
               /\ (L.pc \in {"finish", "exited"} /\ L.targets # <<>>)
                  => L.invoked = expected
               /\ (Truthy(L.arg) /\ L.targets # <<>>) => Len(expected) = 1

C23_Witness ==
    \E p \in Procs :
        LET L == cli[p]
        IN  /\ L.cmd = "sync"
            /\ L.pc = "exited"
            /\ L.arg = None
            /\ L.invoked = <<[name |-> NameB, force |-> TRUE],
                             [name |-> NameA, force |-> TRUE]>>

\* C24: when the two sources of a batch have the same local_dir and both calls
\* return "updated", the shared mirror directory then holds the files of the
\* second source's sub-path at the commit it cloned and no file of the first
\* source, the first source keeps the state entry its own sync wrote, with its
\* own commit, and the second source has an entry with its commit.
C24_LastWriterWins ==
    \A p \in Procs :
        LET L == cli[p]
            C == L.call
            dir == C.source.local_dir
        IN  ( /\ Returned(p)
              /\ L.idx = 2
              /\ L.targets[1].local_dir = L.targets[2].local_dir
              /\ L.results = <<"updated">>
              /\ C.result.status = "updated" )
            => /\ dir \in DOMAIN mirror
               /\ mirror[dir] = TreeOf(L.targets[2].path, C.cloned_head)
               /\ \A f \in mirror[dir] : f[1] # L.targets[1].path
               /\ prev # <<>>
               /\ prev[1].name = L.targets[1].name
               /\ FileEntry(L.targets[1].name) = prev[1].entry
               /\ prev[1].entry # <<>>
               /\ prev[1].entry[1].last_commit = prev[1].commit
               /\ FileEntry(L.targets[2].name) # <<>>
               /\ FileEntry(L.targets[2].name)[1].last_commit = C.result.commit

C24_Witness ==
    \E p \in Procs :
        LET L == cli[p]
            C == L.call
        IN  /\ Returned(p)
            /\ L.idx = 2
            /\ L.targets[1].name = NameA
            /\ L.targets[2].name = NameB
            /\ L.targets[2].local_dir = NameA
            /\ L.results = <<"updated">>
            /\ C.result.status = "updated"
            /\ C.pre_dest = <<TreeOf(PathP, 1)>>
            /\ mirror[NameA] = TreeOf(PathQ, 1)
            /\ FileEntry(NameA) # <<>>
            /\ FileEntry(NameB) # <<>>

\* C25: when `sync a` and `sync b` (different local_dir) run at once, in every
\* state every entry of the state file is either the entry the source had
\* before, or records the head commit while the mirror of the source holds the
\* files of that commit; once the invocation of a source has ended without an
\* exception, an unforced sync of the source would answer "up_to_date" only if
\* its mirror holds the files of the remote head, and a source without entry is
\* never up to date; and when both invocations returned "updated", the file
\* holds the entry written by the last save (the other entry may be missing).
C25_RacingSyncs ==
    LET state == load_refs_state(state_json)
        head == remote[UrlU]
    IN  unit.fn = "race"
        => /\ \A p \in Procs :
                LET s == RaceSources[p]
                    e == FileEntry(s.name)
                    held == DirOf(mirror, s.local_dir) = <<TreeOf(s.path, head)>>
                IN  /\ e # <<>>
                       => \/ e = EntryOf(load_refs_state(unit.args[1]), s.name)
                          \/ e[1].last_commit = Sha(head) /\ held
                    /\ cli[p].pc = "exited"
                       => /\ IsUpToDate(FALSE, state, s.name, Sha(head)) => held
                          /\ e = <<>> => ~IsUpToDate(FALSE, state, s.name, Sha(head))
                    /\ cli[p].results = <<"updated">> => held
           /\ (\A p \in Procs : cli[p].results = <<"updated">>)
              => \E p \in Procs :
                    FileEntry(RaceSources[p].name) =
                        <<[last_commit |-> Sha(head), synced_at |-> now - 1]>>

\* both invocations returned "updated" and the entry of source a is lost
C25_Witness ==
    /\ unit.fn = "race"
    /\ \A p \in Procs : cli[p].pc = "exited" /\ cli[p].results = <<"updated">>
    /\ FileEntry(NameA) = <<>>
    /\ FileEntry(NameB) # <<>>
    /\ mirror[NameA] = TreeOf(PathP, remote[UrlU])

\* the mirror of source s holds exactly the files of its sub-path at the commit
\* named by sha
MirrorHolds(s, sha) ==
    \E k \in 1..MaxCommit :
        Sha(k) = sha /\ DirOf(mirror, s.local_dir) = <<TreeOf(s.path, k)>>

\* C26: with one command at a time, no two sources sharing a local_dir and no
\* push while a sync runs, whenever no command is running every registered
\* source that has a state entry with last_commit = c has a mirror directory
\* holding exactly the files of its sub-path at commit c.
C26_StateMatchesMirror ==
    NoSyncRunning
    => LET sources == load_refs_config(refs_toml)
       IN  \A i \in 1..Len(sources) :
               LET e == FileEntry(sources[i].name)
               IN  e # <<>> => MirrorHolds(sources[i], e[1].last_commit)

\* C27: an unforced sync that answers "up_to_date" for the commit the remote
\* head query returned finds the state entry at that commit and leaves the
\* mirror of the source holding exactly the files of that commit: the state the
\* repeated syncs are said to converge to.
C27_UpToDateMeansMirrored ==
    \A p \in Procs :
        LET C == cli[p].call
        IN  (Returned(p) /\ ~cli[p].force /\ C.result.status = "up_to_date")
            => /\ FileEntry(C.source.name) # <<>>
               /\ FileEntry(C.source.name)[1].last_commit = C.result.commit
               /\ MirrorHolds(C.source, C.result.commit)

\* C28: after a confirmed `remove name --delete-files` every other registered
\* source that has a state entry and had a mirror directory before the command
\* still has it, with the same files.
C28_RemoveFrame ==
    \A p \in Procs :
        LET L == cli[p]
            sources == load_refs_config(refs_toml)
        IN  ( /\ L.cmd = "remove" /\ L.force /\ L.confirm
              /\ L.pc = "exited" /\ L.exit_code = 0 )
            => \A i \in 1..Len(sources) :
                   LET s == sources[i]
                   IN  (FileEntry(s.name) # <<>> /\ DirOf(L.pre.mirror, s.local_dir) # <<>>)
                       => DirOf(mirror, s.local_dir) = DirOf(L.pre.mirror, s.local_dir)

\* C29: every name that has an entry in the state file is the name of a
\* registered source; so right after a successful `add` the added source has no
\* entry, no unforced sync of it can answer "up_to_date" whatever the remote
\* head, and a sync that answers "up_to_date" found an entry of a registered
\* source.
C29_NoOrphanState ==
    LET state == load_refs_state(state_json)
    IN  /\ \A n \in DOMAIN state.sources : Registered(refs_toml, n) # <<>>
        /\ \A p \in Procs :
              LET L == cli[p]
              IN  /\ (L.cmd = "add" /\ L.pc = "exited" /\ L.exit_code = 0)
                     => /\ FileEntry(L.arg) = <<>>
                        /\ \A k \in 1..MaxCommit :
                              ~IsUpToDate(FALSE, state, L.arg, Sha(k))
                  /\ (Returned(p) /\ L.call.result.status = "up_to_date")
                     => /\ EntryOf(load_refs_state(L.call.pre_file), L.call.source.name) # <<>>
                        /\ Registered(refs_toml, L.call.source.name) # <<>>

\* source a is added again after it was synced and removed: its mirror is still
\* there at the remote head, its entry is not
C29_Witness ==
    \E p \in Procs :
        LET L == cli[p]
        IN  /\ L.cmd = "add" /\ L.pc = "exited" /\ L.exit_code = 0
            /\ L.arg = NameA
            /\ Registered(L.pre.toml, NameA) = <<>>
            /\ DirOf(mirror, NameA) = <<TreeOf(PathP, remote[UrlU])>>
            /\ FileEntry(NameA) = <<>>
            /\ FileEntry(NameB) # <<>>

\* C30: when a sync_source call returns a result of status "error", every
\* mirror directory of the project is exactly what it was when the call began.
C30_MirrorUntouchedOnError ==
    \A p \in Procs :
        LET C == cli[p].call
        IN  (Returned(p) /\ C.result.status = "error") => mirror = C.pre_mirror

\* a forced sync of a mirrored source fails at the clone or later
C30_Witness ==
    \E p \in Procs :
        LET C == cli[p].call
        IN  /\ Returned(p)
            /\ cli[p].force
            /\ C.result.status = "error"
            /\ "clone" \in {C.steps[i] : i \in 1..Len(C.steps)}
            /\ C.pre_dest # <<>>
            /\ DirOf(mirror, C.source.local_dir) = C.pre_dest

====
